---- MODULE Spec2Model ----
(***************************************************************************)
(* A model of folly's IPAddressV6 value type (IPAddressV6.cpp): the        *)
(* 16-byte address with its scope id, the static table of the 129 CIDR     *)
(* masks, and the operations that classify, mask and convert an address.   *)
(*                                                                         *)
(* A ByteArray16 is a tuple of 16 bytes; C++ index i is tuple index i + 1  *)
(* (see At).  A call is one action: it reads the object (addr_, scope_)    *)
(* and its arguments and leaves the outcome in ret; Return models the      *)
(* caller dropping that outcome before the next call.                      *)
(***************************************************************************)
EXTENDS Integers, Sequences, FiniteSets, TLC

VARIABLES addr_, scope_, pc, op, args, ret

vars == <<addr_, scope_, pc, op, args, ret>>

-----------------------------------------------------------------------------
(* Values: addresses, IPv4 addresses, outcomes of a call.  Every record    *)
(* of the model is built by one of these operators.                        *)

V6(addrBytes, scopeId) == [kind |-> "v6", bytes |-> addrBytes, scope |-> scopeId]

V4(v4Octets) == [kind |-> "v4", octets |-> v4Octets]

BoolVal(flag) == [kind |-> "bool", b |-> flag]

HashVal(value) == [kind |-> "hash", h |-> value]

TypeVal(value) == [kind |-> "type", t |-> value]

ByteVal(value) == [kind |-> "uint8", u8 |-> value]

WordsVal(value) == [kind |-> "uint16[]", words |-> value]

NoVal == [kind |-> "none"]

\* A call that returns v; tableReads is the set of indices of masks_ it read.
Ok(v, tableReads) == [st |-> "ok", err |-> "", val |-> v, reads |-> tableReads]

\* A call that throws the exception e.
Throw(e, tableReads) == [st |-> "throw", err |-> e, val |-> NoVal, reads |-> tableReads]

\* A call stopped by the failed DCHECK(check) (builds without NDEBUG).
Abort(check) == [st |-> "abort", err |-> check, val |-> NoVal, reads |-> {}]

NoRet == [st |-> "none", err |-> "", val |-> NoVal, reads |-> {}]

\* The arguments of a call.
NoArgs == [numBits |-> 0]

NumBitsArg(n) == [numBits |-> n]

SubnetArgs(n, s) == [numBits |-> n, subnet |-> s]

MacArg(m) == [mac |-> m]

CidrArg(c) == [cidr |-> c]

BytesArg(range) == [bytes |-> range]

-----------------------------------------------------------------------------
(* Bounds of the model and constants of the program.                       *)

\* Largest prefix length handed to mask and fetchMask (a size_t in the code).
MaxNumBits == 131

\* IPAddressV6::bitCount(): the number of bits of an address.
bitCount == 128

\* const uint32_t IPAddressV6::PREFIX_TEREDO = 0x20010000
PREFIX_TEREDO == 536936448

\* const uint32_t IPAddressV6::PREFIX_6TO4 = 0x2002
PREFIX_6TO4 == 8194

\* uint16_t scope_: the scope id of an address built without one.
kDefaultScope == 0

-----------------------------------------------------------------------------
(* C++ arithmetic on unsigned integers.                                    *)

Pow2(k) == 2 ^ k

Byte == 0 .. 255

\* src[i] of a C array held as a tuple.
At(src, i) == src[i + 1]

\* x & y
RECURSIVE BitAnd(_, _)
BitAnd(x, y) ==
  IF x = 0 \/ y = 0 THEN 0
  ELSE (x % 2) * (y % 2) + 2 * BitAnd(x \div 2, y \div 2)

\* x | y
RECURSIVE BitOr(_, _)
BitOr(x, y) ==
  IF x = 0 THEN y
  ELSE IF y = 0 THEN x
  ELSE (IF x % 2 = 1 \/ y % 2 = 1 THEN 1 ELSE 0) + 2 * BitOr(x \div 2, y \div 2)

\* x ^ y
RECURSIVE BitXor(_, _)
BitXor(x, y) ==
  IF x = 0 THEN y
  ELSE IF y = 0 THEN x
  ELSE ((x + y) % 2) + 2 * BitXor(x \div 2, y \div 2)

\* (uintW_t)x << k, for an unsigned type of W <= 16 bits
Shl(x, k, w) == (x * Pow2(k)) % Pow2(w)

\* A uint32_t is the pair of its high and its low 16 bits.
\* (uint32_t)x, for 0 <= x < 2^31
U32(x) == << x \div 65536, x % 65536 >>

\* x << 16, on a uint32_t
Shl32by16(x) == << x[2], 0 >>

\* x | y, on uint32_t
BitOr32(x, y) == << BitOr(x[1], y[1]), BitOr(x[2], y[2]) >>

\* x >> k
Shr(x, k) == x \div Pow2(k)

-----------------------------------------------------------------------------
(* The static mask table.                                                  *)

\* const std::array<ByteArray16, 129> IPAddressV6::masks_; masks_[n] of the code
\* is masks_[n + 1] here.
masks_ == <<
  (* /0   *) << \h00, \h00, \h00, \h00, \h00, \h00, \h00, \h00, \h00, \h00, \h00, \h00, \h00, \h00, \h00, \h00 >>,
  (* /1   *) << \h80, \h00, \h00, \h00, \h00, \h00, \h00, \h00, \h00, \h00, \h00, \h00, \h00, \h00, \h00, \h00 >>,
  (* /2   *) << \hc0, \h00, \h00, \h00, \h00, \h00, \h00, \h00, \h00, \h00, \h00, \h00, \h00, \h00, \h00, \h00 >>,
  (* /3   *) << \he0, \h00, \h00, \h00, \h00, \h00, \h00, \h00, \h00, \h00, \h00, \h00, \h00, \h00, \h00, \h00 >>,
  (* /4   *) << \hf0, \h00, \h00, \h00, \h00, \h00, \h00, \h00, \h00, \h00, \h00, \h00, \h00, \h00, \h00, \h00 >>,
  (* /5   *) << \hf8, \h00, \h00, \h00, \h00, \h00, \h00, \h00, \h00, \h00, \h00, \h00, \h00, \h00, \h00, \h00 >>,
  (* /6   *) << \hfc, \h00, \h00, \h00, \h00, \h00, \h00, \h00, \h00, \h00, \h00, \h00, \h00, \h00, \h00, \h00 >>,
  (* /7   *) << \hfe, \h00, \h00, \h00, \h00, \h00, \h00, \h00, \h00, \h00, \h00, \h00, \h00, \h00, \h00, \h00 >>,
  (* /8   *) << \hff, \h00, \h00, \h00, \h00, \h00, \h00, \h00, \h00, \h00, \h00, \h00, \h00, \h00, \h00, \h00 >>,
  (* /9   *) << \hff, \h80, \h00, \h00, \h00, \h00, \h00, \h00, \h00, \h00, \h00, \h00, \h00, \h00, \h00, \h00 >>,
  (* /10  *) << \hff, \hc0, \h00, \h00, \h00, \h00, \h00, \h00, \h00, \h00, \h00, \h00, \h00, \h00, \h00, \h00 >>,
  (* /11  *) << \hff, \he0, \h00, \h00, \h00, \h00, \h00, \h00, \h00, \h00, \h00, \h00, \h00, \h00, \h00, \h00 >>,
  (* /12  *) << \hff, \hf0, \h00, \h00, \h00, \h00, \h00, \h00, \h00, \h00, \h00, \h00, \h00, \h00, \h00, \h00 >>,
  (* /13  *) << \hff, \hf8, \h00, \h00, \h00, \h00, \h00, \h00, \h00, \h00, \h00, \h00, \h00, \h00, \h00, \h00 >>,
  (* /14  *) << \hff, \hfc, \h00, \h00, \h00, \h00, \h00, \h00, \h00, \h00, \h00, \h00, \h00, \h00, \h00, \h00 >>,
  (* /15  *) << \hff, \hfe, \h00, \h00, \h00, \h00, \h00, \h00, \h00, \h00, \h00, \h00, \h00, \h00, \h00, \h00 >>,
  (* /16  *) << \hff, \hff, \h00, \h00, \h00, \h00, \h00, \h00, \h00, \h00, \h00, \h00, \h00, \h00, \h00, \h00 >>,
  (* /17  *) << \hff, \hff, \h80, \h00, \h00, \h00, \h00, \h00, \h00, \h00, \h00, \h00, \h00, \h00, \h00, \h00 >>,
  (* /18  *) << \hff, \hff, \hc0, \h00, \h00, \h00, \h00, \h00, \h00, \h00, \h00, \h00, \h00, \h00, \h00, \h00 >>,
  (* /19  *) << \hff, \hff, \he0, \h00, \h00, \h00, \h00, \h00, \h00, \h00, \h00, \h00, \h00, \h00, \h00, \h00 >>,
  (* /20  *) << \hff, \hff, \hf0, \h00, \h00, \h00, \h00, \h00, \h00, \h00, \h00, \h00, \h00, \h00, \h00, \h00 >>,
  (* /21  *) << \hff, \hff, \hf8, \h00, \h00, \h00, \h00, \h00, \h00, \h00, \h00, \h00, \h00, \h00, \h00, \h00 >>,
  (* /22  *) << \hff, \hff, \hfc, \h00, \h00, \h00, \h00, \h00, \h00, \h00, \h00, \h00, \h00, \h00, \h00, \h00 >>,
  (* /23  *) << \hff, \hff, \hfe, \h00, \h00, \h00, \h00, \h00, \h00, \h00, \h00, \h00, \h00, \h00, \h00, \h00 >>,
  (* /24  *) << \hff, \hff, \hff, \h00, \h00, \h00, \h00, \h00, \h00, \h00, \h00, \h00, \h00, \h00, \h00, \h00 >>,
  (* /25  *) << \hff, \hff, \hff, \h80, \h00, \h00, \h00, \h00, \h00, \h00, \h00, \h00, \h00, \h00, \h00, \h00 >>,
  (* /26  *) << \hff, \hff, \hff, \hc0, \h00, \h00, \h00, \h00, \h00, \h00, \h00, \h00, \h00, \h00, \h00, \h00 >>,
  (* /27  *) << \hff, \hff, \hff, \he0, \h00, \h00, \h00, \h00, \h00, \h00, \h00, \h00, \h00, \h00, \h00, \h00 >>,
  (* /28  *) << \hff, \hff, \hff, \hf0, \h00, \h00, \h00, \h00, \h00, \h00, \h00, \h00, \h00, \h00, \h00, \h00 >>,
  (* /29  *) << \hff, \hff, \hff, \hf8, \h00, \h00, \h00, \h00, \h00, \h00, \h00, \h00, \h00, \h00, \h00, \h00 >>,
  (* /30  *) << \hff, \hff, \hff, \hfc, \h00, \h00, \h00, \h00, \h00, \h00, \h00, \h00, \h00, \h00, \h00, \h00 >>,
  (* /31  *) << \hff, \hff, \hff, \hfe, \h00, \h00, \h00, \h00, \h00, \h00, \h00, \h00, \h00, \h00, \h00, \h00 >>,
  (* /32  *) << \hff, \hff, \hff, \hff, \h00, \h00, \h00, \h00, \h00, \h00, \h00, \h00, \h00, \h00, \h00, \h00 >>,
  (* /33  *) << \hff, \hff, \hff, \hff, \h80, \h00, \h00, \h00, \h00, \h00, \h00, \h00, \h00, \h00, \h00, \h00 >>,
  (* /34  *) << \hff, \hff, \hff, \hff, \hc0, \h00, \h00, \h00, \h00, \h00, \h00, \h00, \h00, \h00, \h00, \h00 >>,
  (* /35  *) << \hff, \hff, \hff, \hff, \he0, \h00, \h00, \h00, \h00, \h00, \h00, \h00, \h00, \h00, \h00, \h00 >>,
  (* /36  *) << \hff, \hff, \hff, \hff, \hf0, \h00, \h00, \h00, \h00, \h00, \h00, \h00, \h00, \h00, \h00, \h00 >>,
  (* /37  *) << \hff, \hff, \hff, \hff, \hf8, \h00, \h00, \h00, \h00, \h00, \h00, \h00, \h00, \h00, \h00, \h00 >>,
  (* /38  *) << \hff, \hff, \hff, \hff, \hfc, \h00, \h00, \h00, \h00, \h00, \h00, \h00, \h00, \h00, \h00, \h00 >>,
  (* /39  *) << \hff, \hff, \hff, \hff, \hfe, \h00, \h00, \h00, \h00, \h00, \h00, \h00, \h00, \h00, \h00, \h00 >>,
  (* /40  *) << \hff, \hff, \hff, \hff, \hff, \h00, \h00, \h00, \h00, \h00, \h00, \h00, \h00, \h00, \h00, \h00 >>,
  (* /41  *) << \hff, \hff, \hff, \hff, \hff, \h80, \h00, \h00, \h00, \h00, \h00, \h00, \h00, \h00, \h00, \h00 >>,
  (* /42  *) << \hff, \hff, \hff, \hff, \hff, \hc0, \h00, \h00, \h00, \h00, \h00, \h00, \h00, \h00, \h00, \h00 >>,
  (* /43  *) << \hff, \hff, \hff, \hff, \hff, \he0, \h00, \h00, \h00, \h00, \h00, \h00, \h00, \h00, \h00, \h00 >>,
  (* /44  *) << \hff, \hff, \hff, \hff, \hff, \hf0, \h00, \h00, \h00, \h00, \h00, \h00, \h00, \h00, \h00, \h00 >>,
  (* /45  *) << \hff, \hff, \hff, \hff, \hff, \hf8, \h00, \h00, \h00, \h00, \h00, \h00, \h00, \h00, \h00, \h00 >>,
  (* /46  *) << \hff, \hff, \hff, \hff, \hff, \hfc, \h00, \h00, \h00, \h00, \h00, \h00, \h00, \h00, \h00, \h00 >>,
  (* /47  *) << \hff, \hff, \hff, \hff, \hff, \hfe, \h00, \h00, \h00, \h00, \h00, \h00, \h00, \h00, \h00, \h00 >>,
  (* /48  *) << \hff, \hff, \hff, \hff, \hff, \hff, \h00, \h00, \h00, \h00, \h00, \h00, \h00, \h00, \h00, \h00 >>,
  (* /49  *) << \hff, \hff, \hff, \hff, \hff, \hff, \h80, \h00, \h00, \h00, \h00, \h00, \h00, \h00, \h00, \h00 >>,
  (* /50  *) << \hff, \hff, \hff, \hff, \hff, \hff, \hc0, \h00, \h00, \h00, \h00, \h00, \h00, \h00, \h00, \h00 >>,
  (* /51  *) << \hff, \hff, \hff, \hff, \hff, \hff, \he0, \h00, \h00, \h00, \h00, \h00, \h00, \h00, \h00, \h00 >>,
  (* /52  *) << \hff, \hff, \hff, \hff, \hff, \hff, \hf0, \h00, \h00, \h00, \h00, \h00, \h00, \h00, \h00, \h00 >>,
  (* /53  *) << \hff, \hff, \hff, \hff, \hff, \hff, \hf8, \h00, \h00, \h00, \h00, \h00, \h00, \h00, \h00, \h00 >>,
  (* /54  *) << \hff, \hff, \hff, \hff, \hff, \hff, \hfc, \h00, \h00, \h00, \h00, \h00, \h00, \h00, \h00, \h00 >>,
  (* /55  *) << \hff, \hff, \hff, \hff, \hff, \hff, \hfe, \h00, \h00, \h00, \h00, \h00, \h00, \h00, \h00, \h00 >>,
  (* /56  *) << \hff, \hff, \hff, \hff, \hff, \hff, \hff, \h00, \h00, \h00, \h00, \h00, \h00, \h00, \h00, \h00 >>,
  (* /57  *) << \hff, \hff, \hff, \hff, \hff, \hff, \hff, \h80, \h00, \h00, \h00, \h00, \h00, \h00, \h00, \h00 >>,
  (* /58  *) << \hff, \hff, \hff, \hff, \hff, \hff, \hff, \hc0, \h00, \h00, \h00, \h00, \h00, \h00, \h00, \h00 >>,
  (* /59  *) << \hff, \hff, \hff, \hff, \hff, \hff, \hff, \he0, \h00, \h00, \h00, \h00, \h00, \h00, \h00, \h00 >>,
  (* /60  *) << \hff, \hff, \hff, \hff, \hff, \hff, \hff, \hf0, \h00, \h00, \h00, \h00, \h00, \h00, \h00, \h00 >>,
  (* /61  *) << \hff, \hff, \hff, \hff, \hff, \hff, \hff, \hf8, \h00, \h00, \h00, \h00, \h00, \h00, \h00, \h00 >>,
  (* /62  *) << \hff, \hff, \hff, \hff, \hff, \hff, \hff, \hfc, \h00, \h00, \h00, \h00, \h00, \h00, \h00, \h00 >>,
  (* /63  *) << \hff, \hff, \hff, \hff, \hff, \hff, \hff, \hfe, \h00, \h00, \h00, \h00, \h00, \h00, \h00, \h00 >>,
  (* /64  *) << \hff, \hff, \hff, \hff, \hff, \hff, \hff, \hff, \h00, \h00, \h00, \h00, \h00, \h00, \h00, \h00 >>,
  (* /65  *) << \hff, \hff, \hff, \hff, \hff, \hff, \hff, \hff, \h80, \h00, \h00, \h00, \h00, \h00, \h00, \h00 >>,
  (* /66  *) << \hff, \hff, \hff, \hff, \hff, \hff, \hff, \hff, \hc0, \h00, \h00, \h00, \h00, \h00, \h00, \h00 >>,
  (* /67  *) << \hff, \hff, \hff, \hff, \hff, \hff, \hff, \hff, \he0, \h00, \h00, \h00, \h00, \h00, \h00, \h00 >>,
  (* /68  *) << \hff, \hff, \hff, \hff, \hff, \hff, \hff, \hff, \hf0, \h00, \h00, \h00, \h00, \h00, \h00, \h00 >>,
  (* /69  *) << \hff, \hff, \hff, \hff, \hff, \hff, \hff, \hff, \hf8, \h00, \h00, \h00, \h00, \h00, \h00, \h00 >>,
  (* /70  *) << \hff, \hff, \hff, \hff, \hff, \hff, \hff, \hff, \hfc, \h00, \h00, \h00, \h00, \h00, \h00, \h00 >>,
  (* /71  *) << \hff, \hff, \hff, \hff, \hff, \hff, \hff, \hff, \hfe, \h00, \h00, \h00, \h00, \h00, \h00, \h00 >>,
  (* /72  *) << \hff, \hff, \hff, \hff, \hff, \hff, \hff, \hff, \hff, \h00, \h00, \h00, \h00, \h00, \h00, \h00 >>,
  (* /73  *) << \hff, \hff, \hff, \hff, \hff, \hff, \hff, \hff, \hff, \h80, \h00, \h00, \h00, \h00, \h00, \h00 >>,
  (* /74  *) << \hff, \hff, \hff, \hff, \hff, \hff, \hff, \hff, \hff, \hc0, \h00, \h00, \h00, \h00, \h00, \h00 >>,
  (* /75  *) << \hff, \hff, \hff, \hff, \hff, \hff, \hff, \hff, \hff, \he0, \h00, \h00, \h00, \h00, \h00, \h00 >>,
  (* /76  *) << \hff, \hff, \hff, \hff, \hff, \hff, \hff, \hff, \hff, \hf0, \h00, \h00, \h00, \h00, \h00, \h00 >>,
  (* /77  *) << \hff, \hff, \hff, \hff, \hff, \hff, \hff, \hff, \hff, \hf8, \h00, \h00, \h00, \h00, \h00, \h00 >>,
  (* /78  *) << \hff, \hff, \hff, \hff, \hff, \hff, \hff, \hff, \hff, \hfc, \h00, \h00, \h00, \h00, \h00, \h00 >>,
  (* /79  *) << \hff, \hff, \hff, \hff, \hff, \hff, \hff, \hff, \hff, \hfe, \h00, \h00, \h00, \h00, \h00, \h00 >>,
  (* /80  *) << \hff, \hff, \hff, \hff, \hff, \hff, \hff, \hff, \hff, \hff, \h00, \h00, \h00, \h00, \h00, \h00 >>,
  (* /81  *) << \hff, \hff, \hff, \hff, \hff, \hff, \hff, \hff, \hff, \hff, \h80, \h00, \h00, \h00, \h00, \h00 >>,
  (* /82  *) << \hff, \hff, \hff, \hff, \hff, \hff, \hff, \hff, \hff, \hff, \hc0, \h00, \h00, \h00, \h00, \h00 >>,
  (* /83  *) << \hff, \hff, \hff, \hff, \hff, \hff, \hff, \hff, \hff, \hff, \he0, \h00, \h00, \h00, \h00, \h00 >>,
  (* /84  *) << \hff, \hff, \hff, \hff, \hff, \hff, \hff, \hff, \hff, \hff, \hf0, \h00, \h00, \h00, \h00, \h00 >>,
  (* /85  *) << \hff, \hff, \hff, \hff, \hff, \hff, \hff, \hff, \hff, \hff, \hf8, \h00, \h00, \h00, \h00, \h00 >>,
  (* /86  *) << \hff, \hff, \hff, \hff, \hff, \hff, \hff, \hff, \hff, \hff, \hfc, \h00, \h00, \h00, \h00, \h00 >>,
  (* /87  *) << \hff, \hff, \hff, \hff, \hff, \hff, \hff, \hff, \hff, \hff, \hfe, \h00, \h00, \h00, \h00, \h00 >>,
  (* /88  *) << \hff, \hff, \hff, \hff, \hff, \hff, \hff, \hff, \hff, \hff, \hff, \h00, \h00, \h00, \h00, \h00 >>,
  (* /89  *) << \hff, \hff, \hff, \hff, \hff, \hff, \hff, \hff, \hff, \hff, \hff, \h80, \h00, \h00, \h00, \h00 >>,
  (* /90  *) << \hff, \hff, \hff, \hff, \hff, \hff, \hff, \hff, \hff, \hff, \hff, \hc0, \h00, \h00, \h00, \h00 >>,
  (* /91  *) << \hff, \hff, \hff, \hff, \hff, \hff, \hff, \hff, \hff, \hff, \hff, \he0, \h00, \h00, \h00, \h00 >>,
  (* /92  *) << \hff, \hff, \hff, \hff, \hff, \hff, \hff, \hff, \hff, \hff, \hff, \hf0, \h00, \h00, \h00, \h00 >>,
  (* /93  *) << \hff, \hff, \hff, \hff, \hff, \hff, \hff, \hff, \hff, \hff, \hff, \hf8, \h00, \h00, \h00, \h00 >>,
  (* /94  *) << \hff, \hff, \hff, \hff, \hff, \hff, \hff, \hff, \hff, \hff, \hff, \hfc, \h00, \h00, \h00, \h00 >>,
  (* /95  *) << \hff, \hff, \hff, \hff, \hff, \hff, \hff, \hff, \hff, \hff, \hff, \hfe, \h00, \h00, \h00, \h00 >>,
  (* /96  *) << \hff, \hff, \hff, \hff, \hff, \hff, \hff, \hff, \hff, \hff, \hff, \hff, \h00, \h00, \h00, \h00 >>,
  (* /97  *) << \hff, \hff, \hff, \hff, \hff, \hff, \hff, \hff, \hff, \hff, \hff, \hff, \h80, \h00, \h00, \h00 >>,
  (* /98  *) << \hff, \hff, \hff, \hff, \hff, \hff, \hff, \hff, \hff, \hff, \hff, \hff, \hc0, \h00, \h00, \h00 >>,
  (* /99  *) << \hff, \hff, \hff, \hff, \hff, \hff, \hff, \hff, \hff, \hff, \hff, \hff, \he0, \h00, \h00, \h00 >>,
  (* /100 *) << \hff, \hff, \hff, \hff, \hff, \hff, \hff, \hff, \hff, \hff, \hff, \hff, \hf0, \h00, \h00, \h00 >>,
  (* /101 *) << \hff, \hff, \hff, \hff, \hff, \hff, \hff, \hff, \hff, \hff, \hff, \hff, \hf8, \h00, \h00, \h00 >>,
  (* /102 *) << \hff, \hff, \hff, \hff, \hff, \hff, \hff, \hff, \hff, \hff, \hff, \hff, \hfc, \h00, \h00, \h00 >>,
  (* /103 *) << \hff, \hff, \hff, \hff, \hff, \hff, \hff, \hff, \hff, \hff, \hff, \hff, \hfe, \h00, \h00, \h00 >>,
  (* /104 *) << \hff, \hff, \hff, \hff, \hff, \hff, \hff, \hff, \hff, \hff, \hff, \hff, \hff, \h00, \h00, \h00 >>,
  (* /105 *) << \hff, \hff, \hff, \hff, \hff, \hff, \hff, \hff, \hff, \hff, \hff, \hff, \hff, \h80, \h00, \h00 >>,
  (* /106 *) << \hff, \hff, \hff, \hff, \hff, \hff, \hff, \hff, \hff, \hff, \hff, \hff, \hff, \hc0, \h00, \h00 >>,
  (* /107 *) << \hff, \hff, \hff, \hff, \hff, \hff, \hff, \hff, \hff, \hff, \hff, \hff, \hff, \he0, \h00, \h00 >>,
  (* /108 *) << \hff, \hff, \hff, \hff, \hff, \hff, \hff, \hff, \hff, \hff, \hff, \hff, \hff, \hf0, \h00, \h00 >>,
  (* /109 *) << \hff, \hff, \hff, \hff, \hff, \hff, \hff, \hff, \hff, \hff, \hff, \hff, \hff, \hf8, \h00, \h00 >>,
  (* /110 *) << \hff, \hff, \hff, \hff, \hff, \hff, \hff, \hff, \hff, \hff, \hff, \hff, \hff, \hfc, \h00, \h00 >>,
  (* /111 *) << \hff, \hff, \hff, \hff, \hff, \hff, \hff, \hff, \hff, \hff, \hff, \hff, \hff, \hfe, \h00, \h00 >>,
  (* /112 *) << \hff, \hff, \hff, \hff, \hff, \hff, \hff, \hff, \hff, \hff, \hff, \hff, \hff, \hff, \h00, \h00 >>,
  (* /113 *) << \hff, \hff, \hff, \hff, \hff, \hff, \hff, \hff, \hff, \hff, \hff, \hff, \hff, \hff, \h80, \h00 >>,
  (* /114 *) << \hff, \hff, \hff, \hff, \hff, \hff, \hff, \hff, \hff, \hff, \hff, \hff, \hff, \hff, \hc0, \h00 >>,
  (* /115 *) << \hff, \hff, \hff, \hff, \hff, \hff, \hff, \hff, \hff, \hff, \hff, \hff, \hff, \hff, \he0, \h00 >>,
  (* /116 *) << \hff, \hff, \hff, \hff, \hff, \hff, \hff, \hff, \hff, \hff, \hff, \hff, \hff, \hff, \hf0, \h00 >>,
  (* /117 *) << \hff, \hff, \hff, \hff, \hff, \hff, \hff, \hff, \hff, \hff, \hff, \hff, \hff, \hff, \hf8, \h00 >>,
  (* /118 *) << \hff, \hff, \hff, \hff, \hff, \hff, \hff, \hff, \hff, \hff, \hff, \hff, \hff, \hff, \hfc, \h00 >>,
  (* /119 *) << \hff, \hff, \hff, \hff, \hff, \hff, \hff, \hff, \hff, \hff, \hff, \hff, \hff, \hff, \hfe, \h00 >>,
  (* /120 *) << \hff, \hff, \hff, \hff, \hff, \hff, \hff, \hff, \hff, \hff, \hff, \hff, \hff, \hff, \hff, \h00 >>,
  (* /121 *) << \hff, \hff, \hff, \hff, \hff, \hff, \hff, \hff, \hff, \hff, \hff, \hff, \hff, \hff, \hff, \h80 >>,
  (* /122 *) << \hff, \hff, \hff, \hff, \hff, \hff, \hff, \hff, \hff, \hff, \hff, \hff, \hff, \hff, \hff, \hc0 >>,
  (* /123 *) << \hff, \hff, \hff, \hff, \hff, \hff, \hff, \hff, \hff, \hff, \hff, \hff, \hff, \hff, \hff, \he0 >>,
  (* /124 *) << \hff, \hff, \hff, \hff, \hff, \hff, \hff, \hff, \hff, \hff, \hff, \hff, \hff, \hff, \hff, \hf0 >>,
  (* /125 *) << \hff, \hff, \hff, \hff, \hff, \hff, \hff, \hff, \hff, \hff, \hff, \hff, \hff, \hff, \hff, \hf8 >>,
  (* /126 *) << \hff, \hff, \hff, \hff, \hff, \hff, \hff, \hff, \hff, \hff, \hff, \hff, \hff, \hff, \hff, \hfc >>,
  (* /127 *) << \hff, \hff, \hff, \hff, \hff, \hff, \hff, \hff, \hff, \hff, \hff, \hff, \hff, \hff, \hff, \hfe >>,
  (* /128 *) << \hff, \hff, \hff, \hff, \hff, \hff, \hff, \hff, \hff, \hff, \hff, \hff, \hff, \hff, \hff, \hff >>
>>

-----------------------------------------------------------------------------
(* Inputs: the addresses, scope ids, MAC addresses and networks the        *)
(* operations are run on.                                                  *)

A_2001_db8_1   == << \h20, \h01, \h0d, \hb8, 0, 0, 0, 0, 0, 0, 0, 0, 0, 0, 0, \h01 >>
A_2001_db8_0   == << \h20, \h01, \h0d, \hb8, 0, 0, 0, 0, 0, 0, 0, 0, 0, 0, 0, 0 >>
A_2001_db9_1   == << \h20, \h01, \h0d, \hb9, 0, 0, 0, 0, 0, 0, 0, 0, 0, 0, 0, \h01 >>
A_teredo       == << \h20, \h01, \h00, \h00, \h41, \h36, \he3, \h78,
                     \h80, \h00, \h63, \hbf, \h3f, \hff, \hfd, \hd2 >>
A_teredo_0     == << \h20, \h01, 0, 0, 0, 0, 0, 0, 0, 0, 0, 0, 0, 0, 0, 0 >>
A_2001_0001    == << \h20, \h01, \h00, \h01, 0, 0, 0, 0, 0, 0, 0, 0, 0, 0, 0, 0 >>
A_2001_0100    == << \h20, \h01, \h01, \h00, 0, 0, 0, 0, 0, 0, 0, 0, 0, 0, 0, 0 >>
A_0120_0000    == << \h01, \h20, 0, 0, 0, 0, 0, 0, 0, 0, 0, 0, 0, 0, 0, \h01 >>
A_6to4         == << \h20, \h02, \hc0, \h00, \h02, \h04, 0, 0, 0, 0, 0, 0, 0, 0, 0, \h01 >>
A_6to4_b       == << \h20, \h02, \h01, \h02, \h03, \h04, \h05, \h06,
                     \h07, \h08, \h09, \h0a, \h0b, \h0c, \h0d, \h0e >>
A_0220         == << \h02, \h20, \h01, \h02, \h03, \h04, 0, 0, 0, 0, 0, 0, 0, 0, 0, 0 >>
A_2003         == << \h20, \h03, \h01, \h02, \h03, \h04, 0, 0, 0, 0, 0, 0, 0, 0, 0, 0 >>
A_mapped       == << 0, 0, 0, 0, 0, 0, 0, 0, 0, 0, \hff, \hff, \h01, \h02, \h03, \h04 >>
A_mapped_lo    == << 0, 0, 0, 0, 0, 0, 0, 0, 0, 0, \hff, \hff, \h7f, \h00, \h00, \h01 >>
A_mapped_priv  == << 0, 0, 0, 0, 0, 0, 0, 0, 0, 0, \hff, \hff, \h0a, \h00, \h00, \h01 >>
A_fffe         == << 0, 0, 0, 0, 0, 0, 0, 0, 0, 0, \hff, \hfe, \h01, \h02, \h03, \h04 >>
A_feff         == << 0, 0, 0, 0, 0, 0, 0, 0, 0, 0, \hfe, \hff, \h01, \h02, \h03, \h04 >>
A_byte9        == << 0, 0, 0, 0, 0, 0, 0, 0, 0, \h01, \hff, \hff, \h01, \h02, \h03, \h04 >>
A_byte0        == << \h01, 0, 0, 0, 0, 0, 0, 0, 0, 0, \hff, \hff, \h01, \h02, \h03, \h04 >>
A_loopback     == << 0, 0, 0, 0, 0, 0, 0, 0, 0, 0, 0, 0, 0, 0, 0, \h01 >>
A_any          == << 0, 0, 0, 0, 0, 0, 0, 0, 0, 0, 0, 0, 0, 0, 0, 0 >>
A_fe80         == << \hfe, \h80, 0, 0, 0, 0, 0, 0, 0, 0, 0, 0, \h12, \h34, \h56, \h78 >>
A_ff02_1       == << \hff, \h02, 0, 0, 0, 0, 0, 0, 0, 0, 0, 0, 0, 0, 0, \h01 >>
A_ff3e         == << \hff, \h3e, 0, 0, 0, 0, 0, 0, 0, 0, 0, \h01, \hff, \h34, \h56, \h78 >>
A_fc00         == << \hfc, \h00, 0, 0, 0, 0, 0, 0, 0, 0, 0, 0, 0, 0, 0, \h01 >>
A_ones         == << \hff, \hff, \hff, \hff, \hff, \hff, \hff, \hff,
                     \hff, \hff, \hff, \hff, \hff, \hff, \hff, \hff >>
A_8000         == << \h80, 0, 0, 0, 0, 0, 0, 0, 0, 0, 0, 0, 0, 0, 0, 0 >>
A_3fff         == << \h3f, \hff, \hff, \hff, \hff, \hff, \hff, \hff,
                     \hff, \hff, \hff, \hff, \hff, \hff, \hff, \hff >>
A_a5           == << \ha5, \h5a, \ha5, \h5a, \ha5, \h5a, \ha5, \h5a,
                     \ha5, \h5a, \ha5, \h5a, \ha5, \h5a, \ha5, \h5a >>

\* The 16-byte values an address object is built from.
AddrPool ==
  { A_2001_db8_1, A_2001_db8_0, A_2001_db9_1, A_teredo, A_teredo_0, A_2001_0001,
    A_2001_0100, A_0120_0000, A_6to4, A_6to4_b, A_0220, A_2003, A_mapped,
    A_mapped_lo, A_mapped_priv, A_fffe, A_feff, A_byte9, A_byte0, A_loopback,
    A_any, A_fe80, A_ff02_1, A_ff3e, A_fc00, A_ones, A_8000, A_3fff, A_a5 }

\* The scope ids an address object is built with (sin6_scope_id).
ScopeIds == { kDefaultScope, 3 }

\* The subnet addresses handed to inSubnetWithMask: bytes and scope id.
SubnetPool ==
  { << A_2001_db8_0, 0 >>, << A_2001_db9_1, 3 >>, << A_any, 0 >>, << A_ones, 3 >>,
    << A_fe80, 3 >>, << A_loopback, 0 >>, << A_a5, 0 >>, << A_mapped, 3 >> }

B_ramp  == << \h00, \h01, \h02, \h03, \h04, \h05, \h06, \h07,
             \h08, \h09, \h0a, \h0b, \h0c, \h0d, \h0e, \h0f >>
B_empty == << >>
B_four  == << \h7f, \h00, \h00, \h01 >>
B_short == << \h20, \h01, \h0d, \hb8, 0, 0, 0, 0, 0, 0, 0, 0, 0, 0, \h01 >>
B_long  == << \h20, \h01, \h0d, \hb8, 0, 0, 0, 0, 0, 0, 0, 0, 0, 0, 0, \h01, \h02 >>

\* The byte ranges handed to setFromBinary.
BinaryPool == { B_ramp, A_mapped, A_ff02_1, B_empty, B_four, B_short, B_long }

\* Second bytes and bytes 2..15 of the addresses the classification
\* predicates are run on; the first byte ranges over all of 0..255.
Byte1Pool == { \h00, \h01, \h0e, \h1e, \h3e, \he0, \h80, \hff }

TailPool ==
  { << 0, 0, 0, 0, 0, 0, 0, 0, 0, 0, 0, 0, 0, 0 >>,
    << 0, 0, 0, 0, 0, 0, 0, 0, 0, 0, 0, 0, 0, \h01 >>,
    << 0, 0, 0, 0, 0, 0, 0, 0, \hff, \hff, \h0a, \h00, \h00, \h01 >>,
    << 0, 0, 0, 0, 0, 0, 0, 0, \hff, \hff, \h7f, \h00, \h00, \h01 >>,
    << 0, 0, 0, 0, 0, 0, 0, 0, \hff, \hff, \h08, \h08, \h08, \h08 >> }

ClassifyPool == { << b0, b1 >> \o tail : b0 \in Byte, b1 \in Byte1Pool, tail \in TailPool }

\* The MAC addresses handed to the link-local constructor.
MacPool ==
  { << \h00, \h11, \h22, \h33, \h44, \h55 >>,
    << \h02, \h42, \hac, \h11, \h00, \h02 >>,
    << \hff, \hff, \hff, \hff, \hff, \hff >>,
    << \h00, \h00, \h00, \h00, \h00, \h00 >>,
    << \hfd, \h01, \h80, \h7f, \h10, \hfe >>,
    << \h03, \ha5, \h5a, \hc3, \h3c, \h0f >> }

\* The CIDR texts handed to inSubnet, each as what it denotes: the address
\* family, the bytes of the address and the prefix length.
CidrPool ==
  { << "v6", A_2001_db8_0, 32 >>,
    << "v6", A_2001_db8_0, 31 >>,
    << "v6", A_fe80, 10 >>,
    << "v6", A_any, 0 >>,
    << "v6", A_loopback, 128 >>,
    << "v4", << 10, 0, 0, 0 >>, 8 >> }

-----------------------------------------------------------------------------
(* Collaborators of the address type.                                      *)

\* detail::Bytes::mask(a, b): the byte-wise AND of two 16-byte buffers.
BytesMask(a, b) == [i \in 1 .. 16 |-> BitAnd(a[i], b[i])]

\* detail::Bytes::mkAddress4(src): the four bytes at src, in order.
mkAddress4(src, from) == << At(src, from), At(src, from + 1), At(src, from + 2), At(src, from + 3) >>

\* IPAddress::createNetwork(cidrNetwork): the pair of the address and the
\* prefix length the text denotes.
createNetwork(cidrNetwork) ==
  << IF cidrNetwork[1] = "v6" THEN V6(cidrNetwork[2], kDefaultScope) ELSE V4(cidrNetwork[2]),
     cidrNetwork[3] >>

\* IPAddressV4::isLoopback(): within 127.0.0.0/8.
V4isLoopback(v4) == v4.octets[1] = 127

\* IPAddressV4::isPrivate(): within 10.0.0.0/8, 127.0.0.0/8, 169.254.0.0/16,
\* 172.16.0.0/12 or 192.168.0.0/16.
V4isPrivate(v4) ==
  LET o == v4.octets
  IN  \/ o[1] = 10
      \/ o[1] = 127
      \/ o[1] = 169 /\ o[2] = 254
      \/ o[1] = 172 /\ o[2] \in 16 .. 31
      \/ o[1] = 192 /\ o[2] = 168

\* IN6_IS_ADDR_LOOPBACK(&socka.sin6_addr): the address is ::1.
IN6_IS_ADDR_LOOPBACK(bytes) ==
  bytes = << 0, 0, 0, 0, 0, 0, 0, 0, 0, 0, 0, 0, 0, 0, 0, 1 >>

\* IPAddressV4::hash(): a value that depends on the four octets only.
V4hash(v4) == << "AF_INET", v4.octets >>

\* hash::hash_combine(seed, Hash128(&addr_, 16)): a value that depends on
\* the 16 bytes of the address only.
SpookyCombine(bytes) == << "AF_INET6", bytes >>

-----------------------------------------------------------------------------
(* The operations of IPAddressV6.  this is an address value V6(bytes,      *)
(* scope); each operation gives the outcome of the call.                   *)

\* fetchMask indexing the table from its far end.
fetchMask_reversed(numBits) ==
  IF numBits > bitCount
    THEN Throw("IPAddressFormatException: IPv6 addresses are 128 bits.", {})
    ELSE Ok(masks_[(bitCount - numBits) + 1], {bitCount - numBits})

\* fetchMask without its range check: the read past the table gives some bytes.
fetchMask_unchecked(numBits) ==
  Ok(IF numBits <= bitCount THEN masks_[numBits + 1] ELSE A_any, {numBits})

\* static const ByteArray16 fetchMask(size_t numBits)
fetchMask(numBits) ==
  IF numBits > bitCount
    THEN Throw("IPAddressFormatException: IPv6 addresses are 128 bits.", {})
    ELSE Ok(masks_[numBits + 1], {numBits})

\* mask returning the table entry instead of the masked address.
mask_tableEntry(this, numBits) ==
  IF numBits > bitCount
    THEN Throw("IPAddressFormatException: numBits > bitCount", {})
    ELSE Ok(V6(masks_[numBits + 1], kDefaultScope), {numBits})

\* IPAddressV6 mask(size_t numBits) const
mask(this, numBits) ==
  IF numBits > bitCount
    THEN Throw("IPAddressFormatException: numBits > bitCount", {})
    ELSE LET fm == fetchMask(numBits)
         IN  IF fm.st # "ok" THEN fm
             ELSE Ok(V6(BytesMask(fm.val, this.bytes), kDefaultScope), fm.reads)

\* isIPv4Mapped testing byte 10 only.
isIPv4Mapped_byte10(this) ==
  /\ \A i \in 0 .. 9 : At(this.bytes, i) = 0
  /\ At(this.bytes, 10) = 255

\* bool isIPv4Mapped() const
isIPv4Mapped(this) ==
  /\ \A i \in 0 .. 9 : At(this.bytes, i) = 0
  /\ At(this.bytes, 10) = 255
  /\ At(this.bytes, 11) = 255

\* IPAddressV4 createIPv4() const
createIPv4(this) ==
  IF ~isIPv4Mapped(this)
    THEN Throw("IPAddressFormatException: addr is not v4-to-v6-mapped", {})
    ELSE Ok(V4(mkAddress4(this.bytes, 12)), {})

\* static inline uint16_t unpack(uint8_t lobyte, uint8_t hibyte)
unpack(lobyte, hibyte) == BitOr(Shl(hibyte, 8, 16), lobyte)

\* unpackInto handing the two bytes to unpack in the other order.
unpackInto_swapped(src, count) ==
  [i \in 0 .. count - 1 |-> unpack(At(src, 2 * i), At(src, 1 + 2 * i))]

\* static inline void unpackInto(src, dest, count): dest[0 .. count-1]
unpackInto(src, count) ==
  [i \in 0 .. count - 1 |-> unpack(At(src, 1 + 2 * i), At(src, 2 * i))]

\* IPAddressV6::Type type() const
type(this) ==
  LET ints == unpackInto(this.bytes, 2)
  IN  IF BitOr32(Shl32by16(U32(ints[0])), U32(ints[1])) = U32(PREFIX_TEREDO) THEN "TEREDO"
      ELSE IF U32(ints[0]) = U32(PREFIX_6TO4) THEN "T6TO4"
      ELSE "NORMAL"

\* bool is6To4() const
is6To4(this) == type(this) = "T6TO4"

\* getIPv4For6To4 repacking words 0 and 1 instead of words 1 and 2.
getIPv4For6To4_word0(this) ==
  IF ~is6To4(this)
    THEN Throw("IPAddressV6::TypeError: not a 6to4 address", {})
    ELSE LET ints == unpackInto(this.bytes, 4)
         IN  Ok(V4(<< Shr(BitAnd(ints[0], 65280), 8) % 256,
                      BitAnd(ints[0], 255) % 256,
                      Shr(BitAnd(ints[1], 65280), 8) % 256,
                      BitAnd(ints[1], 255) % 256 >>), {})

\* IPAddressV4 getIPv4For6To4() const
getIPv4For6To4(this) ==
  IF ~is6To4(this)
    THEN Throw("IPAddressV6::TypeError: not a 6to4 address", {})
    ELSE LET ints == unpackInto(this.bytes, 4)
         IN  Ok(V4(<< Shr(BitAnd(ints[1], 65280), 8) % 256,
                      BitAnd(ints[1], 255) % 256,
                      Shr(BitAnd(ints[2], 65280), 8) % 256,
                      BitAnd(ints[2], 255) % 256 >>), {})

\* static IPAddressV4 IPAddress::createIPv4(const IPAddress& addr), called on
\* an IPAddressV6.
IPAddress_createIPv4(this) == createIPv4(this)

\* hash without the branch for IPv4-mapped addresses.
hash_noMapped(this) == Ok(HashVal(SpookyCombine(this.bytes)), {})

\* size_t hash() const
hash(this) ==
  IF isIPv4Mapped(this)
    THEN LET v4 == IPAddress_createIPv4(this)
         IN  IF v4.st # "ok" THEN v4 ELSE Ok(HashVal(V4hash(v4.val)), {})
    ELSE Ok(HashVal(SpookyCombine(this.bytes)), {})

\* inSubnetWithMask comparing against the subnet address as given.
inSubnetWithMask_rawSubnet(this, subnet, cidrMask) ==
  BytesMask(this.bytes, cidrMask) = subnet.bytes

\* bool inSubnetWithMask(const IPAddressV6& subnet, const ByteArray16& cidrMask) const
inSubnetWithMask(this, subnet, cidrMask) ==
  LET m       == BytesMask(this.bytes, cidrMask)
      subMask == BytesMask(subnet.bytes, cidrMask)
  IN  m = subMask

\* bool inSubnet(StringPiece cidrNetwork) const
inSubnet(this, cidrNetwork) ==
  LET subnetInfo == createNetwork(cidrNetwork)
      addr       == subnetInfo[1]
  IN  IF addr.kind # "v6"
        THEN Throw("IPAddressFormatException: is not a V6 address", {})
        ELSE LET fm == fetchMask(subnetInfo[2])
             IN  IF fm.st # "ok" THEN fm
                 ELSE Ok(BoolVal(inSubnetWithMask(this, addr, fm.val)), fm.reads)

\* bool isMulticast() const
isMulticast(this) == At(this.bytes, 0) = 255

\* setFromBinary throwing on short input only and copying the first 16 bytes.
setFromBinary_shortOnly(bytes) ==
  IF Len(bytes) < 16
    THEN Throw("IPAddressFormatException: Invalid IPv6 binary data", {})
    ELSE Ok(V6(SubSeq(bytes, 1, 16), 0), {})

\* void setFromBinary(ByteRange bytes): the address it leaves in the object
\* it is called on, or the exception.
setFromBinary(bytes) ==
  IF Len(bytes) # 16
    THEN Throw("IPAddressFormatException: Invalid IPv6 binary data", {})
    ELSE Ok(V6(bytes, 0), {})

\* bool inBinarySubnet(const std::array<uint8_t, 2> addr, size_t numBits) const
inBinarySubnet(this, addr, numBits) ==
  LET masked == mask(this, numBits)
  IN  IF masked.st # "ok" THEN masked
      ELSE Ok(BoolVal(/\ At(addr, 0) = At(masked.val.bytes, 0)
                      /\ At(addr, 1) = At(masked.val.bytes, 1)),
              masked.reads)

\* uint8_t getMulticastFlags() const; ndebug: the build drops DCHECK.
getMulticastFlags(this, ndebug) ==
  IF ~ndebug /\ ~isMulticast(this) THEN Abort("DCHECK(isMulticast())")
  ELSE Ok(ByteVal(BitAnd(Shr(At(this.bytes, 1), 4), 15)), {})

\* getMulticastScope returning byte 1 whole.
getMulticastScope_wholeByte(this, ndebug) ==
  IF ~ndebug /\ ~isMulticast(this) THEN Abort("DCHECK(isMulticast())")
  ELSE Ok(ByteVal(At(this.bytes, 1)), {})

\* uint8_t getMulticastScope() const; ndebug: the build drops DCHECK.
getMulticastScope(this, ndebug) ==
  IF ~ndebug /\ ~isMulticast(this) THEN Abort("DCHECK(isMulticast())")
  ELSE Ok(ByteVal(BitAnd(At(this.bytes, 1), 15)), {})

\* isRoutable reading the multicast scope without asking isMulticast().
isRoutable_noGuard(this, ndebug) ==
  LET global == inBinarySubnet(this, << \h20, \h00 >>, 3)
  IN  IF global.st # "ok" THEN global
      ELSE IF global.val.b THEN global
      ELSE LET sc == getMulticastScope(this, ndebug)
           IN  IF sc.st # "ok" THEN sc
               ELSE Ok(BoolVal(sc.val.u8 = 14), global.reads)

\* bool isRoutable() const; ndebug: the build drops DCHECK.
isRoutable(this, ndebug) ==
  LET global == inBinarySubnet(this, << \h20, \h00 >>, 3)
  IN  IF global.st # "ok" THEN global
      ELSE IF global.val.b THEN global
      ELSE IF ~isMulticast(this) THEN Ok(BoolVal(FALSE), global.reads)
      ELSE LET sc == getMulticastScope(this, ndebug)
           IN  IF sc.st # "ok" THEN sc
               ELSE Ok(BoolVal(sc.val.u8 = 14), global.reads)

\* bool isLoopback() const
isLoopback(this) ==
  IF isIPv4Mapped(this) /\ V4isLoopback(createIPv4(this).val) THEN TRUE
  ELSE IN6_IS_ADDR_LOOPBACK(this.bytes)

\* bool isPrivate() const
isPrivate(this) ==
  IF isIPv4Mapped(this) /\ V4isPrivate(createIPv4(this).val)
    THEN Ok(BoolVal(TRUE), {})
    ELSE IF isLoopback(this) THEN Ok(BoolVal(TRUE), {})
    ELSE inBinarySubnet(this, << \hfc, \h00 >>, 7)

\* bool isLinkLocal() const
isLinkLocal(this) == inBinarySubnet(this, << \hfe, \h80 >>, 10)

\* getSolicitedNodeAddress copying the low 16 bits only.
getSolicitedNodeAddress_low16(this, ndebug) ==
  IF ~ndebug /\ isMulticast(this) THEN Abort("DCHECK(!isMulticast())")
  ELSE LET bytes0 == << \hff, \h02, \h00, \h00, \h00, \h00, \h00, \h00,
                        \h00, \h00, \h00, \h01, \hff, \h00, \h00, \h00 >>
           bytes  == [bytes0 EXCEPT ![15] = At(this.bytes, 14),
                                    ![16] = At(this.bytes, 15)]
       IN  setFromBinary(bytes)

\* IPAddressV6 getSolicitedNodeAddress() const; ndebug: the build drops DCHECK.
getSolicitedNodeAddress(this, ndebug) ==
  IF ~ndebug /\ isMulticast(this) THEN Abort("DCHECK(!isMulticast())")
  ELSE LET bytes0 == << \hff, \h02, \h00, \h00, \h00, \h00, \h00, \h00,
                        \h00, \h00, \h00, \h01, \hff, \h00, \h00, \h00 >>
           bytes  == [bytes0 EXCEPT ![14] = At(this.bytes, 13),
                                    ![15] = At(this.bytes, 14),
                                    ![16] = At(this.bytes, 15)]
       IN  setFromBinary(bytes)

\* AddressStorage setting the universal/local bit instead of flipping it.
AddressStorage_setBit(macBytes) ==
  << \hfe, \h80, \h00, \h00, \h00, \h00, \h00, \h00,
     BitOr(At(macBytes, 0), 2) % 256,
     At(macBytes, 1),
     At(macBytes, 2),
     \hff,
     \hfe,
     At(macBytes, 3),
     At(macBytes, 4),
     At(macBytes, 5) >>

\* IPAddressV6::AddressStorage::AddressStorage(MacAddress mac)
AddressStorage(macBytes) ==
  << \hfe, \h80, \h00, \h00, \h00, \h00, \h00, \h00,
     BitXor(At(macBytes, 0), 2) % 256,
     At(macBytes, 1),
     At(macBytes, 2),
     \hff,
     \hfe,
     At(macBytes, 3),
     At(macBytes, 4),
     At(macBytes, 5) >>

\* IPAddressV6(LinkLocalTag, MacAddress mac)
LinkLocalCtor(mac) == V6(AddressStorage(mac), kDefaultScope)

-----------------------------------------------------------------------------
(* The state machine: an address object and the calls made on it.          *)

this == V6(addr_, scope_)

\* IPAddressV6(const sockaddr_in6& src): addr_ and scope_ from the structure.
Init ==
  /\ addr_ \in AddrPool
  /\ scope_ \in ScopeIds
  /\ pc = "ready"
  /\ op = "none"
  /\ args = NoArgs
  /\ ret = NoRet

\* A call of mask that stores the masked bytes in the object it is called on.
Call_inPlace(name, a, r) ==
  /\ pc = "ready"
  /\ pc' = "returned"
  /\ op' = name
  /\ args' = a
  /\ ret' = r
  /\ addr_' = IF name = "mask" /\ r.st = "ok" THEN r.val.bytes ELSE addr_
  /\ UNCHANGED scope_

\* A call of a const member function, a static function or a constructor
\* of another object: the object keeps its bytes and its scope id.
Call(name, a, r) ==
  /\ pc = "ready"
  /\ pc' = "returned"
  /\ op' = name
  /\ args' = a
  /\ ret' = r
  /\ UNCHANGED <<addr_, scope_>>

FetchMask == \E n \in 0 .. MaxNumBits : Call("fetchMask", NumBitsArg(n), fetchMask(n))

Mask == \E n \in 0 .. MaxNumBits : Call("mask", NumBitsArg(n), mask(this, n))

IsIPv4Mapped == Call("isIPv4Mapped", NoArgs, Ok(BoolVal(isIPv4Mapped(this)), {}))

CreateIPv4 == Call("createIPv4", NoArgs, createIPv4(this))

TypeOf == Call("type", NoArgs, Ok(TypeVal(type(this)), {}))

GetIPv4For6To4 == Call("getIPv4For6To4", NoArgs, getIPv4For6To4(this))

Hash == Call("hash", NoArgs, hash(this))

InSubnetWithMask ==
  \E s \in SubnetPool, n \in 0 .. bitCount :
    Call("inSubnetWithMask", SubnetArgs(n, s),
         Ok(BoolVal(inSubnetWithMask(this, V6(s[1], s[2]), fetchMask(n).val)), {n}))

InSubnet == \E c \in CidrPool : Call("inSubnet", CidrArg(c), inSubnet(this, c))

GetSolicitedNodeAddress ==
  \E ndebug \in BOOLEAN :
    Call("getSolicitedNodeAddress", NoArgs, getSolicitedNodeAddress(this, ndebug))

LinkLocal == \E m \in MacPool : Call("linkLocal", MacArg(m), Ok(LinkLocalCtor(m), {}))

IsMulticast == Call("isMulticast", NoArgs, Ok(BoolVal(isMulticast(this)), {}))

GetMulticastFlags ==
  \E ndebug \in BOOLEAN : Call("getMulticastFlags", NoArgs, getMulticastFlags(this, ndebug))

GetMulticastScope ==
  \E ndebug \in BOOLEAN : Call("getMulticastScope", NoArgs, getMulticastScope(this, ndebug))

IsRoutable == \E ndebug \in BOOLEAN : Call("isRoutable", NoArgs, isRoutable(this, ndebug))

IsLoopback == Call("isLoopback", NoArgs, Ok(BoolVal(isLoopback(this)), {}))

IsPrivate == Call("isPrivate", NoArgs, isPrivate(this))

IsLinkLocal == Call("isLinkLocal", NoArgs, isLinkLocal(this))

\* unpackInto(bytes(), ints, 4), as type() and getIPv4For6To4() run it.
UnpackInto == Call("unpackInto", NoArgs, Ok(WordsVal(unpackInto(addr_, 4)), {}))

\* void setFromBinary(ByteRange bytes) on the object: on success the bytes
\* are copied into addr_ and scope_ is set to 0.
SetFromBinary ==
  \E bytes \in BinaryPool :
    LET r == setFromBinary(bytes)
    IN  /\ pc = "ready"
        /\ pc' = "returned"
        /\ op' = "setFromBinary"
        /\ args' = BytesArg(bytes)
        /\ ret' = (IF r.st = "ok" THEN Ok(NoVal, {}) ELSE r)
        /\ addr_' = (IF r.st = "ok" THEN r.val.bytes ELSE addr_)
        /\ scope_' = (IF r.st = "ok" THEN r.val.scope ELSE scope_)

\* The caller is done with the outcome of the call.
Return ==
  /\ pc = "returned"
  /\ pc' = "ready"
  /\ op' = "none"
  /\ args' = NoArgs
  /\ ret' = NoRet
  /\ UNCHANGED <<addr_, scope_>>

Next ==
  \/ FetchMask
  \/ Mask
  \/ IsIPv4Mapped
  \/ CreateIPv4
  \/ TypeOf
  \/ GetIPv4For6To4
  \/ Hash
  \/ InSubnetWithMask
  \/ InSubnet
  \/ GetSolicitedNodeAddress
  \/ LinkLocal
  \/ SetFromBinary
  \/ IsMulticast
  \/ GetMulticastFlags
  \/ GetMulticastScope
  \/ IsRoutable
  \/ IsLoopback
  \/ IsPrivate
  \/ IsLinkLocal
  \/ UnpackInto
  \/ Return

Spec == Init /\ [][Next]_vars

\* IPAddressV6(const ByteArray16& src): addr_ from the array, scope_ left at
\* its default; the classification predicates on every first byte.
InitClassify ==
  /\ addr_ \in ClassifyPool
  /\ scope_ = kDefaultScope
  /\ pc = "ready"
  /\ op = "none"
  /\ args = NoArgs
  /\ ret = NoRet

NextClassify ==
  \/ IsIPv4Mapped
  \/ IsMulticast
  \/ GetMulticastFlags
  \/ GetMulticastScope
  \/ IsRoutable
  \/ IsLoopback
  \/ IsPrivate
  \/ IsLinkLocal
  \/ Return

SpecClassify == InitClassify /\ [][NextClassify]_vars

-----------------------------------------------------------------------------
(* Properties.  Bit k of a 16-byte value counts from the most significant  *)
(* bit of byte 0 (k = 0) to the least significant bit of byte 15 (k = 127).*)

Bit(bytes, k) == (At(bytes, k \div 8) \div Pow2(7 - (k % 8))) % 2

\* The first n bits of a and of b are equal.
SamePrefix(a, b, n) == \A k \in 0 .. n - 1 : Bit(a, k) = Bit(b, k)

\* C1: for every prefix length n in 0..128 the table entry fetchMask(n)
\* returns has its first n bits 1 and its other 128-n bits 0, that is n \div 8
\* bytes 0xFF, then (when 8 does not divide n) one byte with only its top
\* n mod 8 bits set, then zero bytes.
C1_MaskTable ==
  (op = "fetchMask" /\ args.numBits <= 128) =>
    LET n == args.numBits
    IN  /\ ret.st = "ok"
        /\ Len(ret.val) = 16
        /\ \A k \in 0 .. 127 : Bit(ret.val, k) = (IF k < n THEN 1 ELSE 0)
        /\ \A i \in 0 .. 15 :
             At(ret.val, i) =
               IF i < n \div 8 THEN 255
               ELSE IF i = n \div 8 /\ n % 8 # 0 THEN 256 - Pow2(8 - (n % 8))
               ELSE 0

C1_Witness ==
  /\ op = "fetchMask"
  /\ args.numBits = 43
  /\ ret.st = "ok"
  /\ At(ret.val, 5) = 224

\* C2: a.inSubnetWithMask(s, fetchMask(n)) is true exactly when the first n
\* bits of a and of s are equal, whatever the two scope ids; 2001:db8::1 is
\* in 2001:db8::/32 and 2001:db9::1 is not.
C2_InSubnet ==
  /\ op = "inSubnetWithMask" =>
       /\ ret.st = "ok"
       /\ ret.val.b = SamePrefix(addr_, args.subnet[1], args.numBits)
  /\ (op = "inSubnet" /\ args.cidr = << "v6", A_2001_db8_0, 32 >>) =>
       /\ addr_ = A_2001_db8_1 => ret = Ok(BoolVal(TRUE), {32})
       /\ addr_ = A_2001_db9_1 => ret = Ok(BoolVal(FALSE), {32})

C2_Witness ==
  /\ op = "inSubnetWithMask"
  /\ addr_ = A_2001_db9_1
  /\ scope_ = 3
  /\ args.subnet = << A_2001_db8_0, 0 >>
  /\ args.numBits = 31
  /\ ret.val.b = TRUE

\* C3: type() returns TEREDO exactly when bytes 0..3 are 20 01 00 00,
\* otherwise T6TO4 exactly when bytes 0..1 are 20 02, otherwise NORMAL.
C3_Type ==
  op = "type" =>
    /\ ret.st = "ok"
    /\ ret.val.t =
         IF SubSeq(addr_, 1, 4) = << 32, 1, 0, 0 >> THEN "TEREDO"
         ELSE IF SubSeq(addr_, 1, 2) = << 32, 2 >> THEN "T6TO4"
         ELSE "NORMAL"

C3_Witness ==
  /\ op = "type"
  /\ addr_ = A_teredo
  /\ ret.val.t = "TEREDO"

\* C4: getIPv4For6To4 throws the type error on every address whose type() is
\* not T6TO4, and on a 6to4 address returns the IPv4 address whose octets are
\* bytes 2, 3, 4 and 5 of the address.
C4_GetIPv4For6To4 ==
  op = "getIPv4For6To4" =>
    IF type(this) = "T6TO4"
      THEN ret = Ok(V4(<< At(addr_, 2), At(addr_, 3), At(addr_, 4), At(addr_, 5) >>), {})
      ELSE /\ ret.st = "throw"
           /\ ret.err = "IPAddressV6::TypeError: not a 6to4 address"
           /\ ret.val = NoVal

C4_Witness ==
  /\ op = "getIPv4For6To4"
  /\ addr_ = A_6to4_b
  /\ ret.st = "ok"
  /\ ret.val.octets = << 1, 2, 3, 4 >>

\* Bytes 0..9 are 0x00 and bytes 10 and 11 are 0xFF.
MappedLayout(bytes) ==
  SubSeq(bytes, 1, 12) = << 0, 0, 0, 0, 0, 0, 0, 0, 0, 0, 255, 255 >>

\* C5: isIPv4Mapped() is true exactly when bytes 0..9 are 0x00 and bytes 10
\* and 11 are 0xFF; createIPv4() then returns the IPv4 address made of bytes
\* 12..15, and otherwise throws the not-v4-mapped error and returns nothing.
C5_Mapped ==
  /\ op = "isIPv4Mapped" => ret = Ok(BoolVal(MappedLayout(addr_)), {})
  /\ op = "createIPv4" =>
       IF MappedLayout(addr_)
         THEN ret = Ok(V4(SubSeq(addr_, 13, 16)), {})
         ELSE /\ ret.st = "throw"
              /\ ret.err = "IPAddressFormatException: addr is not v4-to-v6-mapped"
              /\ ret.val = NoVal

C5_Witness ==
  /\ op = "createIPv4"
  /\ addr_ = A_mapped
  /\ ret.st = "ok"
  /\ ret.val.octets = << 1, 2, 3, 4 >>

\* C6: the hash of an IPv4-mapped address is the IPv4 hash of the IPv4
\* address createIPv4() returns for it, whatever its scope id: the same
\* bytes hash alike under every scope id.
C6_MappedHash ==
  (op = "hash" /\ MappedLayout(addr_)) =>
    /\ ret.st = "ok"
    /\ ret.val.h = V4hash(V4(SubSeq(addr_, 13, 16)))
    /\ ret.val.h = V4hash(createIPv4(this).val)
    /\ \A s \in ScopeIds : hash(V6(addr_, s)) = ret

C6_Witness ==
  /\ op = "hash"
  /\ addr_ = A_mapped
  /\ scope_ = 3
  /\ ret.val.h = V4hash(V4(<< 1, 2, 3, 4 >>))

\* C7: masking is idempotent, a.mask(n).mask(n) = a.mask(n) in bytes and
\* scope id, for every n in 0..128, and every bit of a.mask(n) is the AND of
\* that bit of a and that bit of fetchMask(n).
C7_MaskIdempotent ==
  (op = "mask" /\ args.numBits <= 128) =>
    /\ ret.st = "ok"
    /\ mask(ret.val, args.numBits).st = "ok"
    /\ mask(ret.val, args.numBits).val = ret.val
    /\ \A k \in 0 .. 127 :
         Bit(ret.val.bytes, k) = Bit(addr_, k) * Bit(fetchMask(args.numBits).val, k)

C7_Witness ==
  /\ op = "mask"
  /\ addr_ = A_a5
  /\ scope_ = 3
  /\ args.numBits = 43
  /\ ret.st = "ok"
  /\ SubSeq(ret.val.bytes, 5, 7) = << 165, 64, 0 >>

\* C8: for numBits > 128 mask and fetchMask throw before they read the mask
\* table and return nothing; for numBits in 0..128 both succeed; no call
\* reads the table at an index outside 0..128.
C8_PrefixLength ==
  /\ ret.reads \subseteq 0 .. 128
  /\ op \in {"mask", "fetchMask"} =>
       IF args.numBits > 128
         THEN /\ ret.st = "throw"
              /\ ret.err \in { "IPAddressFormatException: numBits > bitCount",
                               "IPAddressFormatException: IPv6 addresses are 128 bits." }
              /\ ret.val = NoVal
              /\ ret.reads = {}
         ELSE /\ ret.st = "ok"
              /\ ret.reads = {args.numBits}

C8_Witness ==
  /\ op = "fetchMask"
  /\ args.numBits = 129
  /\ ret.st = "throw"

\* b with its bit 0x02 flipped.
FlipBit2(b) == IF (b \div 2) % 2 = 1 THEN b - 2 ELSE b + 2

\* C9: the link-local address of the MAC m is fe 80 00 00 00 00 00 00, m[0]
\* with bit 0x02 flipped, m[1], m[2], ff, fe, m[3], m[4], m[5]; for
\* 00:11:22:33:44:55 it is fe80::0211:22ff:fe33:4455.
C9_LinkLocal ==
  op = "linkLocal" =>
    LET m == args.mac
    IN  /\ ret.st = "ok"
        /\ ret.val.bytes = << 254, 128, 0, 0, 0, 0, 0, 0,
                              FlipBit2(m[1]), m[2], m[3], 255, 254, m[4], m[5], m[6] >>
        /\ m = << 0, 17, 34, 51, 68, 85 >> =>
             ret.val.bytes = << \hfe, \h80, 0, 0, 0, 0, 0, 0,
                                \h02, \h11, \h22, \hff, \hfe, \h33, \h44, \h55 >>

C9_Witness ==
  /\ op = "linkLocal"
  /\ args.mac = << 2, 66, 172, 17, 0, 2 >>
  /\ ret.st = "ok"
  /\ At(ret.val.bytes, 8) = 0

\* The invariant part of C10: the address returned.
C10_Returned ==
  (op = "getSolicitedNodeAddress" /\ At(addr_, 0) # 255) =>
    /\ ret = Ok(V6(<< 255, 2, 0, 0, 0, 0, 0, 0, 0, 0, 0, 1, 255,
                      At(addr_, 13), At(addr_, 14), At(addr_, 15) >>, 0), {})
    /\ addr_ = A_fe80 =>
         ret.val.bytes = << \hff, \h02, 0, 0, 0, 0, 0, 0,
                            0, 0, 0, \h01, \hff, \h34, \h56, \h78 >>

\* C10: on a non-multicast address a, getSolicitedNodeAddress() returns
\* ff 02 00 00 00 00 00 00 00 00 00 01 ff followed by bytes 13, 14 and 15 of
\* a, with scope id 0, and leaves a as it was; for fe80::1234:5678 it
\* returns ff02::1:ff34:5678.
C10_SolicitedNode ==
  /\ []C10_Returned
  /\ [][op' = "getSolicitedNodeAddress" => (addr_' = addr_ /\ scope_' = scope_)]_vars

C10_Witness ==
  /\ op = "getSolicitedNodeAddress"
  /\ addr_ = A_fe80
  /\ scope_ = 3
  /\ ret.st = "ok"
  /\ ret.val.scope = 0

\* C11: setFromBinary succeeds exactly when its input has 16 bytes; the
\* address then holds the input byte for byte with scope id 0; on any other
\* length it throws the address-format exception and the bytes and the scope
\* id of the object stay as they were before the call.
C11_SetFromBinary ==
  [][op' = "setFromBinary" =>
       IF Len(args'.bytes) = 16
         THEN /\ ret'.st = "ok"
              /\ addr_' = args'.bytes
              /\ \A i \in 0 .. 15 : At(addr_', i) = At(args'.bytes, i)
              /\ scope_' = 0
         ELSE /\ ret'.st = "throw"
              /\ ret'.err = "IPAddressFormatException: Invalid IPv6 binary data"
              /\ addr_' = addr_
              /\ scope_' = scope_]_vars

C11_Witness ==
  /\ op = "setFromBinary"
  /\ args.bytes = B_ramp
  /\ ret.st = "ok"
  /\ addr_ = B_ramp
  /\ scope_ = 0

\* C12 as stated: no operation, setFromBinary included, changes the bytes or
\* the scope id of an existing address.
C12_Immutable == [][addr_' = addr_ /\ scope_' = scope_]_vars

\* C12 amended: every operation other than a setFromBinary that succeeds
\* leaves the bytes and the scope id of the address as they were; mask,
\* createIPv4, getIPv4For6To4 and getSolicitedNodeAddress return a new value.
C12_ImmutableButSet ==
  [][(op' # "setFromBinary" \/ ret'.st # "ok") => (addr_' = addr_ /\ scope_' = scope_)]_vars

C12_Witness ==
  /\ op = "mask"
  /\ args.numBits = 43
  /\ addr_ = A_a5
  /\ scope_ = 3
  /\ ret.st = "ok"
  /\ ret.val.bytes # addr_
  /\ ret.val.scope # scope_

\* C13: isRoutable() is true exactly when the top three bits of byte 0 are
\* 001 (2000::/3), or byte 0 is 0xFF and the low nibble of byte 1 is 0xE.
C13_Routable ==
  op = "isRoutable" =>
    /\ ret.st = "ok"
    /\ ret.val.b = (\/ At(addr_, 0) \div 32 = 1
                    \/ At(addr_, 0) = 255 /\ At(addr_, 1) % 16 = 14)

C13_Witness ==
  /\ op = "isRoutable"
  /\ At(addr_, 0) = 255
  /\ At(addr_, 1) = 62
  /\ ret.st = "ok"
  /\ ret.val.b = TRUE

\* C14: on an address with byte 0 = 0xFF getMulticastFlags() returns the high
\* nibble of byte 1 and getMulticastScope() the low nibble; on any other
\* address either accessor trips its precondition check and returns no
\* value; isRoutable never calls an accessor on a non-multicast address.
C14_Accessors ==
  /\ op = "getMulticastFlags" =>
       IF At(addr_, 0) = 255 THEN ret = Ok(ByteVal(At(addr_, 1) \div 16), {})
       ELSE ret.st = "abort" /\ ret.val = NoVal
  /\ op = "getMulticastScope" =>
       IF At(addr_, 0) = 255 THEN ret = Ok(ByteVal(At(addr_, 1) % 16), {})
       ELSE ret.st = "abort" /\ ret.val = NoVal
  /\ op = "isRoutable" => ret.st = "ok"

\* C15 as stated: word i of the helper is (byte[2i+1] << 8) | byte[2i].
C15_LoHiWords ==
  op = "unpackInto" =>
    \A i \in 0 .. 3 : ret.val.words[i] = At(addr_, 2 * i + 1) * 256 + At(addr_, 2 * i)

\* C15 amended: word i of the helper is (byte[2i] << 8) | byte[2i+1]: src[0]
\* is the high byte and src[1] the low byte of the first 16-bit word.
C15_HiLoWords ==
  op = "unpackInto" =>
    /\ ret.st = "ok"
    /\ \A i \in 0 .. 3 : ret.val.words[i] = At(addr_, 2 * i) * 256 + At(addr_, 2 * i + 1)

C15_Witness ==
  /\ op = "unpackInto"
  /\ addr_ = A_teredo
  /\ ret.val.words[0] = 8193
  /\ ret.val.words[2] = 16694

\* C16: no address is both private and routable; isPrivate() is true for
\* ::1, for an IPv4-mapped address whose IPv4 address is loopback or private
\* and within fc00::/7; every IPv4-mapped address is non-routable.
C16_PrivateNotRoutable ==
  /\ op = "isPrivate" =>
       /\ ret.st = "ok"
       /\ ret.val.b =
            (\/ addr_ = A_loopback
             \/ /\ MappedLayout(addr_)
                /\ \/ V4isLoopback(V4(SubSeq(addr_, 13, 16)))
                   \/ V4isPrivate(V4(SubSeq(addr_, 13, 16)))
             \/ At(addr_, 0) \div 2 = 126)
       /\ ret.val.b =>
            \A nd \in BOOLEAN :
              isRoutable(this, nd).st = "ok" => ~isRoutable(this, nd).val.b
  /\ (op = "isRoutable" /\ ret.st = "ok" /\ ret.val.b) => ~isPrivate(this).val.b
  /\ (op = "isRoutable" /\ MappedLayout(addr_)) => ret = Ok(BoolVal(FALSE), {3})

C16_Witness ==
  /\ op = "isPrivate"
  /\ At(addr_, 0) = 253
  /\ At(addr_, 1) = 14
  /\ ret.st = "ok"
  /\ ret.val.b = TRUE

====
